---- MODULE Spec2Model ----
(***************************************************************************)
(* The state-aggregation core of stillo: combineOtherReducers,             *)
(* createReducer (partsReducer and the two returned root reducers) and     *)
(* getInitialState, driven by a host that keeps the composite state and    *)
(* dispatches actions to the root reducer.                                 *)
(*                                                                         *)
(* JavaScript values are pairs <<type, n>>.  A composite state is an       *)
(* object of the heap, named by its reference; "the same object" is the    *)
(* same reference.  An object's content is a function from the keys it     *)
(* holds to values.                                                        *)
(***************************************************************************)
EXTENDS Integers, Sequences, FiniteSets, TLC

\* Bounds of the model.
MaxParts == 2
MaxVal == 1
MaxSteps == 3
MaxEntries == 2

Keys == {"a", "b"}

\* ---------------------------------------------------------------- values
Undefined == <<"undefined", 0>>
Null == <<"null", 0>>
Num(n) == <<"number", n>>
Ref(r) == <<"object", r>>

Values == {Undefined, Null} \cup {Num(n) : n \in 0..MaxVal}

\* An object with no keys: {}.
EmptyObject == [k \in {} |-> Undefined]

\* state[key]: a key the object does not hold reads as undefined.
Get(obj, key) == IF key \in DOMAIN obj THEN obj[key] ELSE Undefined

\* { ...obj, [key]: value }
Put(obj, key, value) ==
  [k \in DOMAIN obj \cup {key} |-> IF k = key THEN value ELSE obj[k]]

\* { ...a, ...b }
Spread(a, b) ==
  [k \in DOMAIN a \cup DOMAIN b |-> IF k \in DOMAIN b THEN b[k] ELSE a[k]]

\* The equality check of diviso-shared: values (and references) are compared
\* as such, a value is equal to itself (NaN included), no look into objects.
is(x, y) == x = y

\* --------------------------------------------------------------- actions
\* action.$$part is a part's id (1, 2, ...) or absent; action.type is a
\* string or absent ("").
NoTag == 0
Tags == 1..(MaxParts + 1)
Types == {"", "inc", "set"}

Actions ==
  {[part |-> p, type |-> t, payload |-> v] :
     p \in {NoTag} \cup Tags, t \in Types \ {"set"}, v \in {Undefined}}
  \cup
  {[part |-> p, type |-> "set", payload |-> v] :
     p \in {NoTag} \cup Tags, v \in {Undefined, Null}}

\* The {} that getInitialState hands to each part's reducer.
EmptyAction == [part |-> NoTag, type |-> "", payload |-> Undefined]

isPartAction(action) == action.part # NoTag

\* ------------------------------------------- reducers written by the user
\* "inc": (s = 0, a) => a.type === 'inc' ? s + 1 : s
\*        (numbers wrap at MaxVal; null + 1 is 1)
\* "set": (s, a)     => a.type === 'set' ? a.payload : s
ReducerKinds == {"inc", "set"}

callReducer(r, previous, action) ==
  IF r = "inc"
    THEN LET s == IF previous = Undefined THEN Num(0) ELSE previous
         IN IF action.type = "inc"
              THEN Num(((IF s = Null THEN 0 ELSE s[2]) + 1) % (MaxVal + 1))
              ELSE s
    ELSE IF action.type = "set" THEN action.payload ELSE previous

\* A single other-reducer over the whole state.  obj is the content of the
\* state it is given, isUndefined tells a call with undefined state.  The
\* result is the object it returns: same = the very object it was given.
\* "identity": (s = {}, a) => s
\* "slice":    (s = {}, a) => a.type === 'set' ? { b: a.payload } : s
\* "copy":     (s = {}, a) => ({ ...s })
FunctionKinds == {"identity", "slice", "copy"}

callFunction(f, isUndefined, obj, action) ==
  LET s == IF isUndefined THEN EmptyObject ELSE obj
  IN IF f = "slice" /\ action.type = "set"
       THEN [same |-> FALSE, content |-> Put(EmptyObject, "b", action.payload)]
     ELSE IF f = "copy"
       THEN [same |-> FALSE, content |-> s]
     ELSE [same |-> ~isUndefined, content |-> s]

\* ------------------------------------------------------ results of a call
NoError == [name |-> "", key |-> "", tag |-> NoTag, type |-> ""]

\* One invocation of a user's reducer: a part's (kind "part", the part's id),
\* a reducer-map entry's (kind "key", its key) or the single other-reducer
\* (kind "other"); arg is the previous value (or state reference) it got.
Call(kind, key, tag, arg, action) ==
  [kind |-> kind, key |-> key, tag |-> tag, arg |-> arg, action |-> action]

\* A call returned an object: the one it was given (same) or a new one.
Return(same, content, calls) ==
  [thrown |-> FALSE, error |-> NoError, same |-> same, content |-> content,
   calls |-> calls]

Throw(error, calls) ==
  [thrown |-> TRUE, error |-> error, same |-> FALSE, content |-> EmptyObject,
   calls |-> calls]

\* ------------------------------------------------------- construction config
\* A part descriptor: its id (the key of the part registry and the $$part of
\* the actions that target it), its name n, its owner key o, its reducer r.
Part(i, n, o, r) == [i |-> i, n |-> n, o |-> o, r |-> r]

PartsOfLength(len) == [1..len -> [n : Keys, o : Keys, r : ReducerKinds]]

\* The lists of parts handed to createReducer: part number i has id i.
PartLists ==
  UNION {{[i \in 1..len |-> Part(i, ps[i].n, ps[i].o, ps[i].r)] :
            ps \in PartsOfLength(len)} : len \in 0..MaxParts}

\* The part registry the host builds from the list: id -> part.
PartMapOf(parts) == [i \in 1..Len(parts) |-> parts[i]]

\* What a reducer map can hold at a key: a reducer, or something that is not
\* a function.
NonFunctions == {"undefined"}

DistinctKeys(entries) ==
  \A i, j \in 1..Len(entries) : i # j => entries[i].key # entries[j].key

\* A reducer map, its keys in the order Object.keys lists them.
ReducerMaps ==
  UNION {{m \in [1..len -> [key : Keys, r : ReducerKinds \cup NonFunctions]] :
            DistinctKeys(m)} : len \in 0..MaxEntries}

\* The otherReducer of the config: absent, one function, or a reducer map.
OtherReducers ==
  {[type |-> "undefined", f |-> "", entries |-> <<>>]}
  \cup {[type |-> "function", f |-> f, entries |-> <<>>] : f \in FunctionKinds}
  \cup {[type |-> "object", f |-> "", entries |-> m] : m \in ReducerMaps}

Configs ==
  {[parts |-> ps, partMap |-> PartMapOf(ps), otherReducer |-> other] :
     ps \in PartLists, other \in OtherReducers}

\* Values supplied as otherReducer that are neither a function nor an object:
\* null, 0, '', a non-zero number, a non-empty string.
InvalidOtherReducers ==
  {[type |-> t, f |-> "", entries |-> <<>>] :
     t \in {"null", "zero", "emptyString", "number", "string"}}

\* Every config createReducer may be handed.
AllConfigs ==
  {[parts |-> ps, partMap |-> PartMapOf(ps), otherReducer |-> other] :
     ps \in PartLists, other \in OtherReducers \cup InvalidOtherReducers}

\* !otherReducer is false: undefined, null, 0 and '' are the falsy ones.
truthy(otherReducer) ==
  otherReducer.type \notin {"undefined", "null", "zero", "emptyString"}

\* typeof otherReducer
typeOf(otherReducer) ==
  IF otherReducer.type = "null" THEN "object"
  ELSE IF otherReducer.type = "zero" THEN "number"
  ELSE IF otherReducer.type = "emptyString" THEN "string"
  ELSE otherReducer.type

isReducersMap(otherReducer) == otherReducer.type = "object"

\* ------------------------------------------------------ combineOtherReducers
\* Variant: every entry is kept, whatever its value.
finalReducers_NoFilter(reducers) == reducers

\* The entries kept at construction: those whose value is a function.
finalReducers(reducers) ==
  SelectSeq(reducers, LAMBDA e : e.r \in ReducerKinds)

finalReducerKeys(reducers) ==
  [i \in 1..Len(finalReducers(reducers)) |-> finalReducers(reducers)[i].key]

UndefinedReducerResult(key, action) ==
  [name |-> "UndefinedReducerResult", key |-> key, tag |-> NoTag,
   type |-> IF action.type # "" THEN action.type ELSE "(unknown type)"]

\* Variant: nextStateForKey == null, which takes null for undefined too.
isUndefinedResult_NullToo(nextStateForKey) ==
  nextStateForKey = Undefined \/ nextStateForKey = Null

\* typeof nextStateForKey === 'undefined'
isUndefinedResult(nextStateForKey) == nextStateForKey = Undefined

\* Variant: nextState is assigned only the keys whose value changed.
RECURSIVE combinedLoop_OnlyChanged(_, _, _, _, _, _, _, _)
combinedLoop_OnlyChanged(final, i, same, state, action, nextState, hasChanged, calls) ==
  IF i > Len(final)
    THEN IF hasChanged
           THEN Return(FALSE, nextState, calls)
           ELSE Return(same, state, calls)
    ELSE LET key == final[i].key
             previousStateForKey == Get(state, key)
             nextStateForKey == callReducer(final[i].r, previousStateForKey, action)
             called == Append(calls, Call("key", key, NoTag, previousStateForKey, action))
         IN IF nextStateForKey = Undefined
              THEN Throw(UndefinedReducerResult(key, action), called)
              ELSE combinedLoop_OnlyChanged(final, i + 1, same, state, action,
                     IF is(previousStateForKey, nextStateForKey)
                       THEN nextState
                       ELSE Put(nextState, key, nextStateForKey),
                     hasChanged \/ ~is(previousStateForKey, nextStateForKey),
                     called)

\* Variant: the keys are visited from the last to the first.
RECURSIVE combinedLoop_Backwards(_, _, _, _, _, _, _, _)
combinedLoop_Backwards(final, i, same, state, action, nextState, hasChanged, calls) ==
  IF i > Len(final)
    THEN IF hasChanged
           THEN Return(FALSE, nextState, calls)
           ELSE Return(same, state, calls)
    ELSE LET key == final[Len(final) + 1 - i].key
             previousStateForKey == Get(state, key)
             nextStateForKey ==
               callReducer(final[Len(final) + 1 - i].r, previousStateForKey, action)
             called == Append(calls, Call("key", key, NoTag, previousStateForKey, action))
         IN IF nextStateForKey = Undefined
              THEN Throw(UndefinedReducerResult(key, action), called)
              ELSE combinedLoop_Backwards(final, i + 1, same, state, action,
                     Put(nextState, key, nextStateForKey),
                     hasChanged \/ ~is(previousStateForKey, nextStateForKey),
                     called)

\* The loop of the combined reducer from index i on, and its return.
RECURSIVE combinedLoop(_, _, _, _, _, _, _, _)
combinedLoop(final, i, same, state, action, nextState, hasChanged, calls) ==
  IF i > Len(final)
    THEN IF hasChanged
           THEN Return(FALSE, nextState, calls)
           ELSE Return(same, state, calls)
    ELSE LET key == final[i].key
             previousStateForKey == Get(state, key)
             nextStateForKey == callReducer(final[i].r, previousStateForKey, action)
             called == Append(calls, Call("key", key, NoTag, previousStateForKey, action))
         IN IF isUndefinedResult(nextStateForKey)
              THEN Throw(UndefinedReducerResult(key, action), called)
              ELSE combinedLoop(final, i + 1, same, state, action,
                                Put(nextState, key, nextStateForKey),
                                hasChanged \/ ~is(previousStateForKey, nextStateForKey),
                                called)

\* Variant: nextState starts as a copy of the state given.
combineOtherReducers_CopiesState(reducers, isUndefined, obj, action) ==
  combinedLoop(finalReducers(reducers), 1, ~isUndefined,
               IF isUndefined THEN EmptyObject ELSE obj,
               action, IF isUndefined THEN EmptyObject ELSE obj, FALSE, <<>>)

\* The reducer combineOtherReducers(reducers) returns, called with a state
\* (isUndefined: called with undefined, which the default {} replaces).
combineOtherReducers(reducers, isUndefined, obj, action) ==
  combinedLoop(finalReducers(reducers), 1, ~isUndefined,
               IF isUndefined THEN EmptyObject ELSE obj,
               action, EmptyObject, FALSE, <<>>)

\* ---------------------------------------------------------- getInitialState
\* The key getInitialState assigns a part's initial value to.
initialStateKey(part) == part.n

\* Variant: a key that already holds a value is not assigned again.
RECURSIVE initialStateLoop_FirstWins(_, _, _, _)
initialStateLoop_FirstWins(parts, index, initialState, calls) ==
  IF index > Len(parts)
    THEN Return(FALSE, initialState, calls)
    ELSE LET part == parts[index]
         IN initialStateLoop_FirstWins(parts, index + 1,
              IF initialStateKey(part) \in DOMAIN initialState
                THEN initialState
                ELSE Put(initialState, initialStateKey(part),
                         callReducer(part.r, Undefined, EmptyAction)),
              Append(calls, Call("part", "", part.i, Undefined, EmptyAction)))

RECURSIVE initialStateLoop(_, _, _, _)
initialStateLoop(parts, index, initialState, calls) ==
  IF index > Len(parts)
    THEN Return(FALSE, initialState, calls)
    ELSE LET part == parts[index]
         IN initialStateLoop(parts, index + 1,
              Put(initialState, initialStateKey(part),
                  callReducer(part.r, Undefined, EmptyAction)),
              Append(calls, Call("part", "", part.i, Undefined, EmptyAction)))

getInitialState(parts) == initialStateLoop(parts, 1, EmptyObject, <<>>)

\* ------------------------------------------------------------- createReducer
UnregisteredPart(action) ==
  [name |-> "UnregisteredPart", key |-> "", tag |-> action.part, type |-> ""]

\* Variant: no equality check, always { ...state, [owner]: next }.
partsReducerReturn_AlwaysNew(same, state, owner, prev, next, calls) ==
  Return(FALSE, Put(state, owner, next), calls)

\* Variant: { [owner]: next } without the spread of state.
partsReducerReturn_NoSpread(same, state, owner, prev, next, calls) ==
  IF is(prev, next)
    THEN Return(same, state, calls)
    ELSE Return(FALSE, Put(EmptyObject, owner, next), calls)

\* return is(prev, next) ? state : { ...state, [owner]: next }
\* Variant: the new value is assigned to the owner key of the state given.
partsReducerReturn_InPlace(same, state, owner, prev, next, calls) ==
  IF is(prev, next)
    THEN Return(same, state, calls)
    ELSE Return(same, Put(state, owner, next), calls)

partsReducerReturn(same, state, owner, prev, next, calls) ==
  IF is(prev, next)
    THEN Return(same, state, calls)
    ELSE Return(FALSE, Put(state, owner, next), calls)

\* Variant: an action for a part that is not registered is ignored.
partsReducer_NoLookupCheck(partMap, same, state, action, calls) ==
  IF action.part \notin DOMAIN partMap
    THEN Return(same, state, calls)
    ELSE LET part == partMap[action.part]
             prev == Get(state, part.o)
         IN partsReducerReturn(same, state, part.o, prev,
              callReducer(part.r, prev, action),
              Append(calls, Call("part", "", part.i, prev, action)))

\* Variant: the previous value is read at the part's name, not its owner.
partsReducer_ReadsName(partMap, same, state, action, calls) ==
  IF action.part \notin DOMAIN partMap
    THEN Throw(UnregisteredPart(action), calls)
    ELSE LET part == partMap[action.part]
             owner == part.o
             prev == Get(state, part.n)
             next == callReducer(part.r, prev, action)
         IN partsReducerReturn(same, state, owner, prev, next,
              Append(calls, Call("part", "", part.i, prev, action)))

\* partsReducer(state, action); same tells that state is the caller's object
\* and not one made in this call; calls are the invocations made so far.
partsReducer(partMap, same, state, action, calls) ==
  IF action.part \notin DOMAIN partMap
    THEN Throw(UnregisteredPart(action), calls)
    ELSE LET part == partMap[action.part]
             owner == part.o
             prev == Get(state, owner)
             next == callReducer(part.r, prev, action)
         IN partsReducerReturn(same, state, owner, prev, next,
              Append(calls, Call("part", "", part.i, prev, action)))

\* Variant: a non-part action returns { ...state }.
reducerOfParts_CopiesState(cfg, isUndefined, obj, action) ==
  LET initial == getInitialState(cfg.parts)
      state == IF isUndefined THEN initial.content ELSE obj
      calls == IF isUndefined THEN initial.calls ELSE <<>>
  IN IF isPartAction(action)
       THEN partsReducer(cfg.partMap, ~isUndefined, state, action, calls)
       ELSE Return(FALSE, state, calls)

\* The reducer createReducer returns when no otherReducer is given.
reducerOfParts(cfg, isUndefined, obj, action) ==
  LET initial == getInitialState(cfg.parts)
      state == IF isUndefined THEN initial.content ELSE obj
      calls == IF isUndefined THEN initial.calls ELSE <<>>
  IN IF isPartAction(action)
       THEN partsReducer(cfg.partMap, ~isUndefined, state, action, calls)
       ELSE Return(~isUndefined, state, calls)

\* additionalReducer(state, action): the combined map or the single function.
additionalReducer(otherReducer, isUndefined, ref, obj, action) ==
  IF isReducersMap(otherReducer)
    THEN combineOtherReducers(otherReducer.entries, isUndefined, obj, action)
    ELSE LET out == callFunction(otherReducer.f, isUndefined, obj, action)
         IN Return(out.same, out.content,
                   <<Call("other", "", NoTag, ref, action)>>)

\* Variant: the spreads in the other order, the parts' values last.
initialMerge_PartsLast(partsState, otherState) == Spread(otherState, partsState)

\* { ...getInitialState(parts), ...additionalReducer(undefined, action) }
initialMerge(partsState, otherState) == Spread(partsState, otherState)

\* Variant: no equality check, always { ...state, ...nextOtherState }.
otherReturn_AlwaysNew(state, nextOtherState) ==
  Return(FALSE, Spread(state, nextOtherState.content), nextOtherState.calls)

\* Variant: returns nextOtherState without the spread of state.
otherReturn_NoSpread(state, nextOtherState) ==
  IF nextOtherState.same
    THEN Return(TRUE, state, nextOtherState.calls)
    ELSE Return(FALSE, nextOtherState.content, nextOtherState.calls)

\* return is(state, nextOtherState) ? state : { ...state, ...nextOtherState };
\* two objects are equal under the check when they are the same object.
otherReturn(state, nextOtherState) ==
  IF nextOtherState.same
    THEN Return(TRUE, state, nextOtherState.calls)
    ELSE Return(FALSE, Spread(state, nextOtherState.content), nextOtherState.calls)

\* The reducer createReducer returns when an otherReducer is given.
reducerWithOther(cfg, isUndefined, ref, obj, action) ==
  IF isUndefined
    THEN LET initial == getInitialState(cfg.parts)
             other == additionalReducer(cfg.otherReducer, TRUE, Undefined, EmptyObject, action)
         IN IF other.thrown
              THEN Throw(other.error, initial.calls \o other.calls)
              ELSE Return(FALSE, initialMerge(initial.content, other.content),
                          initial.calls \o other.calls)
  ELSE IF isPartAction(action)
    THEN partsReducer(cfg.partMap, TRUE, obj, action, <<>>)
  ELSE LET nextOtherState == additionalReducer(cfg.otherReducer, FALSE, ref, obj, action)
       IN IF nextOtherState.thrown
            THEN nextOtherState
            ELSE otherReturn(obj, nextOtherState)

InvalidOtherReducer(otherReducer) ==
  [name |-> "InvalidOtherReducer", key |-> "", tag |-> NoTag,
   type |-> typeOf(otherReducer)]

\* createReducer(config): the error construction ends in, NoError when it
\* returns a reducer.  A reducer map is combined into a function first.
createReducer(config) ==
  IF ~truthy(config.otherReducer)
    THEN NoError
  ELSE IF isReducersMap(config.otherReducer) \/ typeOf(config.otherReducer) = "function"
    THEN NoError
  ELSE InvalidOtherReducer(config.otherReducer)

\* The root reducer of a config, called with (state, action): state is
\* undefined or the reference ref of the heap object with content obj.
reducer(cfg, isUndefined, ref, obj, action) ==
  IF ~truthy(cfg.otherReducer)
    THEN reducerOfParts(cfg, isUndefined, obj, action)
    ELSE reducerWithOther(cfg, isUndefined, ref, obj, action)

\* ------------------------------------------------------------------ the host
\* cfg     the construction config of the root reducer
\* state   the composite state the host holds: undefined or a reference
\* heap    the objects made so far: heap[r] is the content of object r
\* prev    the state handed to the last call of the root reducer
\* action  the action handed to the last call
\* error   the error the last call ended in, NoError when it returned
\* calls   the invocations of the user's reducers the last call made, in order
\* steps   the number of calls made
\* construction  whether createReducer(cfg) has run, and the error it ended in
VARIABLES cfg, state, heap, prev, action, error, calls, steps, construction

vars == <<cfg, state, heap, prev, action, error, calls, steps, construction>>

Content(s) == IF s = Undefined THEN EmptyObject ELSE heap[s[2]]

Init ==
  /\ cfg \in Configs
  /\ state = Undefined
  /\ heap = <<>>
  /\ prev = Undefined
  /\ action = EmptyAction
  /\ error = NoError
  /\ calls = <<>>
  /\ steps = 0
  /\ construction = [done |-> TRUE, error |-> createReducer(cfg)]

\* The host calls reducer(state, a) and keeps what it returns; a call that
\* throws leaves the host's state as it was.
Call_reducer(a) ==
  LET result == reducer(cfg, state = Undefined, state, Content(state), a)
  IN /\ construction.done /\ construction.error = NoError
     /\ steps < MaxSteps
     /\ steps' = steps + 1
     /\ prev' = state
     /\ action' = a
     /\ error' = result.error
     /\ calls' = result.calls
     /\ IF result.thrown
          THEN UNCHANGED <<state, heap>>
          ELSE IF result.same
            THEN /\ heap' = [heap EXCEPT ![state[2]] = result.content]
                 /\ state' = state
            ELSE /\ heap' = Append(heap, result.content)
                 /\ state' = Ref(Len(heap) + 1)
     /\ UNCHANGED <<cfg, construction>>

\* The first call: the host has no state yet.
Initialize == \E a \in Actions : state = Undefined /\ Call_reducer(a)

DispatchPartAction ==
  \E a \in Actions : state # Undefined /\ isPartAction(a) /\ Call_reducer(a)

DispatchAction ==
  \E a \in Actions : state # Undefined /\ ~isPartAction(a) /\ Call_reducer(a)

Next == Initialize \/ DispatchPartAction \/ DispatchAction

Spec == Init /\ [][Next]_vars

\* Construction as a step of its own, over every config: the host calls
\* createReducer(cfg), and calls the reducer once if it got one.
InitCreate ==
  /\ cfg \in AllConfigs
  /\ state = Undefined
  /\ heap = <<>>
  /\ prev = Undefined
  /\ action = EmptyAction
  /\ error = NoError
  /\ calls = <<>>
  /\ steps = 0
  /\ construction = [done |-> FALSE, error |-> NoError]

Create ==
  /\ ~construction.done
  /\ construction' = [done |-> TRUE, error |-> createReducer(cfg)]
  /\ UNCHANGED <<cfg, state, heap, prev, action, error, calls, steps>>

NextCreate == Create \/ Initialize

SpecCreate == InitCreate /\ [][NextCreate]_vars

TypeOK ==
  /\ cfg \in Configs
  /\ steps \in 0..MaxSteps
  /\ state = Undefined \/ (state[1] = "object" /\ state[2] \in 1..Len(heap))
  /\ action \in Actions

\* -------------------------------------------------- the last call, as seen
Called == steps > 0
OnDefined == Called /\ prev # Undefined
OnUndefined == Called /\ prev = Undefined
Returned == Called /\ error = NoError

\* The content of the state the last call was given, and of the host's state.
Old == Content(prev)
New == Content(state)

Registered == action.part \in DOMAIN cfg.partMap
Target == cfg.partMap[action.part]

NoOther == cfg.otherReducer.type = "undefined"
OneFunction == cfg.otherReducer.type = "function"
ReducerMap == cfg.otherReducer.type = "object"

\* The valid entries of the reducer map, and what entry i's reducer is given
\* and returns for the last call.
Final == finalReducers(cfg.otherReducer.entries)
PreviousAt(i) == Get(Old, Final[i].key)
NextAt(i) == callReducer(Final[i].r, PreviousAt(i), action)

\* What the targeted part's reducer is given and returns for the last call.
PartPrevious == Get(Old, Target.o)
PartNext == callReducer(Target.r, PartPrevious, action)

\* ------------------------------------------------------------------------ C1
\* Every reducer the last call touches returned a value equal under the
\* equality check to the previous value it was given.
TouchedUnchanged ==
  IF isPartAction(action)
    THEN Registered /\ is(PartPrevious, PartNext)
  ELSE IF OneFunction
    THEN callFunction(cfg.otherReducer.f, FALSE, Old, action).same
  ELSE \A i \in 1..Len(Final) : is(PreviousAt(i), NextAt(i))

NoneUndefined ==
  isPartAction(action) \/ \A i \in 1..Len(Final) : NextAt(i) # Undefined

\* C1 as stated: on a defined state s, if every touched reducer returns a value
\* equal to its previous value, reducer(s, a) returns s itself.
C1_AsStated ==
  (OnDefined /\ TouchedUnchanged) => (error = NoError /\ state = prev)

\* C1, amended: identity stability.  On a defined state s, if every reducer
\* the call touches returns a value equal under the equality check to the
\* previous value it was given, and no per-key reducer of the reducer map
\* returns undefined, reducer(s, a) returns s itself, the same reference.
C1_IdentityStability ==
  (OnDefined /\ TouchedUnchanged /\ NoneUndefined)
    => (error = NoError /\ state = prev)

\* A non-part action ran both reducers of a two-key map, neither changed its
\* value, and the state object is the one given.
C1_Witness ==
  /\ OnDefined /\ ~isPartAction(action) /\ ReducerMap /\ Len(Final) = 2
  /\ Len(calls) = 2
  /\ TouchedUnchanged /\ NoneUndefined
  /\ error = NoError /\ state = prev

\* ------------------------------------------------------------------------ C2
\* C2: single-key replacement.  A part action with a registered target P of
\* owner key k, on a defined state s: if P's reducer returns a value that
\* differs from s[k], the result is a new object where k holds that value and
\* every other key of s is present with the value it had in s.
C2_SingleKeyReplacement ==
  (OnDefined /\ isPartAction(action) /\ Registered /\ ~is(PartPrevious, PartNext))
    => /\ error = NoError
       /\ state # prev
       /\ Target.o \in DOMAIN New /\ New[Target.o] = PartNext
       /\ \A k \in DOMAIN Old \ {Target.o} : k \in DOMAIN New /\ New[k] = Old[k]

\* A part changed its value in a state that holds another key too.
C2_Witness ==
  /\ OnDefined /\ isPartAction(action) /\ Registered
  /\ ~is(PartPrevious, PartNext)
  /\ DOMAIN Old \ {Target.o} # {}
  /\ state # prev /\ New[Target.o] = PartNext

\* ------------------------------------------------------------------------ C3
\* C3: after initialization every part's owner key o is present in the
\* composite state, and stays present, also for a part whose n is not its o.
C3_OwnerKeysPresent ==
  state # Undefined
    => \A i \in 1..Len(cfg.parts) : cfg.parts[i].o \in DOMAIN New

\* ------------------------------------------------------------------------ C4
\* C4: initialization idempotence.  The state the initializing call returned
\* for its action is the state it returns for any other action.
C4_InitializationIdempotence ==
  (OnUndefined /\ error = NoError)
    => \A b \in Actions :
         LET other == reducer(cfg, TRUE, Undefined, EmptyObject, b)
         IN ~other.thrown => New = other.content

\* ------------------------------------------------------------------------ C5
\* C5: unregistered part rejection.  On a defined state, a part action whose
\* $$part is not a key of the part registry ends in an UnregisteredPart error
\* naming that tag; no reducer is invoked and no new state is produced.
C5_UnregisteredPartRejection ==
  (OnDefined /\ isPartAction(action) /\ ~Registered)
    => /\ error.name = "UnregisteredPart" /\ error.tag = action.part
       /\ calls = <<>>
       /\ state = prev

\* An unregistered part action was rejected by a reducer built with an
\* other-reducer, on a state that holds keys.
C5_Witness ==
  /\ OnDefined /\ isPartAction(action) /\ ~Registered
  /\ ~NoOther /\ DOMAIN Old # {}
  /\ error.name = "UnregisteredPart" /\ error.tag = action.part

\* ------------------------------------------------------------------------ C6
\* The last call ran the reducer of the reducer map: the initializing call, or
\* a non-part action on a defined state.
CombinatorCalled ==
  Called /\ ReducerMap /\ (prev = Undefined \/ ~isPartAction(action))

\* The valid entries whose reducer returns undefined for the last call, and
\* the first of them in the order of the keys.
UndefinedAt == {i \in 1..Len(Final) : NextAt(i) = Undefined}
FirstUndefined == CHOOSE i \in UndefinedAt : \A j \in UndefinedAt : i <= j

\* C6: fatal on undefined.  When a valid per-key reducer returns undefined the
\* call ends in an error naming that key and the action's type if present, and
\* no state is returned, also when an earlier key had changed; when none
\* does, a null result included, the call raises no error.
C6_FatalOnUndefined ==
  CombinatorCalled
    => IF UndefinedAt # {}
         THEN /\ error.name = "UndefinedReducerResult"
              /\ error.key = Final[FirstUndefined].key
              /\ error.type = (IF action.type # "" THEN action.type
                                                   ELSE "(unknown type)")
              /\ state = prev
         ELSE error = NoError

\* A non-part action on a defined state: the first key changed, the second
\* key's reducer returned undefined, and the call failed naming the second.
C6_Witness ==
  /\ CombinatorCalled /\ OnDefined /\ Len(Final) = 2
  /\ NextAt(1) # Undefined /\ ~is(PreviousAt(1), NextAt(1))
  /\ NextAt(2) = Undefined
  /\ error.name = "UndefinedReducerResult" /\ error.key = Final[2].key
  /\ state = prev

\* ------------------------------------------------------------------------ C7
\* C7: with no other-reducer, a non-part action on a defined state returns
\* that same state object and invokes no part reducer.
C7_NonPartActionIsNoOp ==
  (OnDefined /\ NoOther /\ ~isPartAction(action))
    => (error = NoError /\ state = prev /\ calls = <<>>)

\* A second non-part action in a row left the state of two parts as it was.
C7_Witness ==
  /\ OnDefined /\ NoOther /\ ~isPartAction(action)
  /\ steps = MaxSteps /\ Len(cfg.parts) = 2 /\ DOMAIN Old # {}
  /\ state = prev /\ state = Ref(1)

\* ------------------------------------------------------------------------ C8
\* What the other-reducer returns for the state and action of the last call.
Output == additionalReducer(cfg.otherReducer, FALSE, prev, Old, action)

\* C8: with an other-reducer, a non-part action on a defined state s invokes
\* the other-reducer on s; an output that is s returns s, any other output
\* returns a new object that is s overwritten key by key by the output, so
\* the keys of s absent from the output keep their values.
C8_OtherReducerMerge ==
  (OnDefined /\ ~NoOther /\ ~isPartAction(action) /\ ~Output.thrown)
    => /\ error = NoError
       /\ OneFunction => calls = <<Call("other", "", NoTag, prev, action)>>
       /\ ReducerMap =>
            /\ Len(calls) = Len(Final)
            /\ \A i \in 1..Len(Final) :
                 calls[i] = Call("key", Final[i].key, NoTag, PreviousAt(i), action)
       /\ IF Output.same
            THEN state = prev
            ELSE /\ state # prev
                 /\ DOMAIN New = DOMAIN Old \cup DOMAIN Output.content
                 /\ \A k \in DOMAIN Output.content : New[k] = Output.content[k]
                 /\ \A k \in DOMAIN Old \ DOMAIN Output.content : New[k] = Old[k]

\* The other-reducer returned a new object that lacks a key of the state, and
\* the new state holds both the output's keys and that key.
C8_Witness ==
  /\ OnDefined /\ ~NoOther /\ ~isPartAction(action) /\ ~Output.thrown
  /\ ~Output.same
  /\ DOMAIN Output.content # {}
  /\ DOMAIN Old \ DOMAIN Output.content # {}
  /\ state # prev /\ DOMAIN Old \subseteq DOMAIN New

\* ------------------------------------------------------------------------ C9
PartsInitial == getInitialState(cfg.parts).content
OtherInitial ==
  additionalReducer(cfg.otherReducer, TRUE, Undefined, EmptyObject, action).content

\* C9: the initializing call of a reducer built with an other-reducer returns
\* the parts' initial state merged with the other-reducer's result for
\* undefined state; on a key both hold, the other-reducer's value is kept.
C9_InitialMerge ==
  (OnUndefined /\ ~NoOther /\ error = NoError)
    => /\ DOMAIN New = DOMAIN PartsInitial \cup DOMAIN OtherInitial
       /\ \A k \in DOMAIN OtherInitial : New[k] = OtherInitial[k]
       /\ \A k \in DOMAIN PartsInitial \ DOMAIN OtherInitial :
            New[k] = PartsInitial[k]

\* A part and the other-reducer gave different initial values for one key.
C9_Witness ==
  /\ OnUndefined /\ ~NoOther /\ error = NoError
  /\ \E k \in DOMAIN PartsInitial \cap DOMAIN OtherInitial :
       PartsInitial[k] # OtherInitial[k] /\ New[k] = OtherInitial[k]

\* ----------------------------------------------------------------------- C10
\* C10: keys never disappear.  Every key of the state given to a call that
\* returned is a key of the state it returned.
C10_KeysNeverDisappear ==
  (OnDefined /\ error = NoError) => DOMAIN Old \subseteq DOMAIN New

\* A call on a state with keys returned a new state with one more key.
C10_Witness ==
  /\ OnDefined /\ error = NoError /\ state # prev
  /\ DOMAIN Old # {} /\ DOMAIN Old # DOMAIN New
  /\ DOMAIN Old \subseteq DOMAIN New

\* ----------------------------------------------------------------------- C11
\* The value supplied as otherReducer is neither a function nor a reducer map.
SuppliedInvalid == cfg.otherReducer \in InvalidOtherReducers

\* C11: createReducer fails at construction, reporting the received type,
\* whenever the supplied otherReducer is neither a function nor a valid
\* reducer mapping, falsy values (null, 0, '') included; no reducer is
\* returned.
C11_InvalidOtherReducer ==
  (construction.done /\ SuppliedInvalid)
    => /\ construction.error.name = "InvalidOtherReducer"
       /\ construction.error.type = typeOf(cfg.otherReducer)
       /\ ~Called

\* ----------------------------------------------------------------------- C13
\* The invocations getInitialState(cfg.parts) makes: one for each part of the
\* list, in the order of the list, with (undefined, {}).
InitialCalls ==
  [i \in 1..Len(cfg.parts) |->
     Call("part", "", cfg.parts[i].i, Undefined, EmptyAction)]

\* The last part of the list that getInitialState files under key k.
LastWith(k) ==
  CHOOSE i \in 1..Len(cfg.parts) :
    /\ cfg.parts[i].n = k
    /\ \A j \in (i + 1)..Len(cfg.parts) : cfg.parts[j].n # k

\* C13: getInitialState(parts) invokes each part's reducer exactly once with
\* (undefined, {}), in list order, and nothing else; of two parts filed under
\* one key the later one's value is in the result.  The initializing call
\* starts with these invocations; with no other-reducer and a non-part action
\* it makes no other and returns getInitialState(parts).
C13_InitialState ==
  OnUndefined
    => /\ Len(calls) >= Len(cfg.parts)
       /\ SubSeq(calls, 1, Len(cfg.parts)) = InitialCalls
       /\ (NoOther /\ ~isPartAction(action))
            => /\ error = NoError
               /\ calls = InitialCalls
               /\ DOMAIN New = {cfg.parts[i].n : i \in 1..Len(cfg.parts)}
               /\ \A k \in DOMAIN New :
                    New[k] = callReducer(cfg.parts[LastWith(k)].r, Undefined, EmptyAction)

\* Two parts filed under one key gave different initial values, and the
\* state holds the second part's.
C13_Witness ==
  /\ OnUndefined /\ NoOther /\ ~isPartAction(action)
  /\ Len(cfg.parts) = 2 /\ Len(calls) = 2
  /\ cfg.parts[1].n = cfg.parts[2].n
  /\ callReducer(cfg.parts[1].r, Undefined, EmptyAction)
       # callReducer(cfg.parts[2].r, Undefined, EmptyAction)
  /\ New[cfg.parts[2].n] = callReducer(cfg.parts[2].r, Undefined, EmptyAction)

\* ----------------------------------------------------------------------- C14
\* What the reducer of the reducer map returns for the state and the action
\* of the last call (for the initializing call: for undefined state).
Combined ==
  combineOtherReducers(cfg.otherReducer.entries, prev = Undefined, Old, action)

FinalKeys == {Final[i].key : i \in 1..Len(Final)}

\* Some valid key's reducer returned a value different from its previous one.
SomeChanged == \E i \in 1..Len(Final) : ~is(PreviousAt(i), NextAt(i))

\* C14 as stated: the reducer of combineOtherReducers returns the state
\* object it was given when no valid key's reducer returned a value different
\* from its previous value, and otherwise a new object that holds, for every
\* valid key, the value its reducer just returned, unchanged ones included.
C14_AsStated ==
  (CombinatorCalled /\ OnDefined)
    => /\ ~Combined.thrown /\ error = NoError
       /\ ~SomeChanged => (Combined.same /\ Combined.content = Old /\ state = prev)
       /\ SomeChanged =>
            /\ ~Combined.same
            /\ \A i \in 1..Len(Final) :
                 /\ Final[i].key \in DOMAIN Combined.content
                 /\ Combined.content[Final[i].key] = NextAt(i)

\* C14, amended: when no valid key's reducer returns undefined, the reducer
\* of combineOtherReducers returns the state object it was given if no valid
\* key's reducer returned a value different from its previous value, and
\* otherwise a new object that holds, for every valid key, the value its
\* reducer just returned, unchanged ones included.
C14_CombinedResult ==
  (CombinatorCalled /\ OnDefined /\ UndefinedAt = {})
    => /\ ~Combined.thrown
       /\ Combined.same <=> ~SomeChanged
       /\ Combined.same => Combined.content = Old /\ state = prev
       /\ ~Combined.same =>
            /\ \A i \in 1..Len(Final) :
                 /\ Final[i].key \in DOMAIN Combined.content
                 /\ Combined.content[Final[i].key] = NextAt(i)
                 /\ New[Final[i].key] = NextAt(i)
            /\ state # prev

\* Of two valid keys one changed and one did not, and the new object holds
\* the values of both.
C14_Witness ==
  /\ CombinatorCalled /\ OnDefined /\ UndefinedAt = {} /\ Len(Final) = 2
  /\ ~is(PreviousAt(1), NextAt(1)) /\ is(PreviousAt(2), NextAt(2))
  /\ ~Combined.same
  /\ Combined.content[Final[2].key] = NextAt(2)
  /\ state # prev

\* ----------------------------------------------------------------------- C15
\* C15: no call changes a key or a value of an object that exists before the
\* call, the state it was given included; a state different from the one
\* given is an object created by the call; a call that ends in an error
\* leaves the host's state and every object as they were.
C15_NoInPlaceMutation ==
  [][ /\ \A r \in DOMAIN heap : r \in DOMAIN heap' /\ heap'[r] = heap[r]
      /\ state' # state => state'[2] \notin DOMAIN heap
      /\ error' # NoError => (state' = state /\ heap' = heap) ]_vars

\* A part action changed the state: the host holds a new object and the
\* object the call was given still has its old value at the owner key.
C15_Witness ==
  /\ OnDefined /\ isPartAction(action) /\ Registered /\ error = NoError
  /\ state # prev
  /\ Get(Old, Target.o) # Get(New, Target.o)
  /\ Get(New, Target.o) = PartNext

\* ----------------------------------------------------------------------- C16
\* The keys of the reducer map whose value is not a function.
InvalidKeys ==
  {cfg.otherReducer.entries[i].key :
     i \in {j \in 1..Len(cfg.otherReducer.entries) :
              cfg.otherReducer.entries[j].r \in NonFunctions}}

\* C16: with a reducer map that has entries that are not functions,
\* construction raises no error, no call is made for such a key, the
\* reducer map's result for undefined state and its changed result for a
\* defined state do not hold the key, a non-part action leaves the root
\* state's value at the key as it was, and the result counts as changed
\* only by the valid keys; with no valid entry the input state is returned
\* and nothing is called.
C16_NonFunctionsDropped ==
  (ReducerMap /\ InvalidKeys # {})
    => /\ construction.error = NoError
       /\ \A c \in 1..Len(calls) :
            calls[c].kind = "key" => calls[c].key \notin InvalidKeys
       /\ (OnUndefined /\ error = NoError)
            => \A k \in InvalidKeys :
                 k \in DOMAIN New => k \in DOMAIN PartsInitial
       /\ (CombinatorCalled /\ OnDefined /\ error = NoError)
            => /\ \A k \in InvalidKeys : Get(New, k) = Get(Old, k)
               /\ Combined.same <=> ~SomeChanged
               /\ ~Combined.same
                    => \A k \in InvalidKeys : k \notin DOMAIN Combined.content
       /\ (CombinatorCalled /\ OnDefined /\ Final = <<>>)
            => /\ error = NoError /\ state = prev /\ calls = <<>>

\* A map of one valid and one invalid entry; the state holds a value at the
\* invalid key, the valid key changed, and one call was made.
C16_Witness ==
  /\ ReducerMap /\ Len(cfg.otherReducer.entries) = 2 /\ Len(Final) = 1
  /\ CombinatorCalled /\ OnDefined /\ error = NoError
  /\ \E k \in InvalidKeys : k \in DOMAIN Old
  /\ state # prev
  /\ Len(calls) = 1

\* ----------------------------------------------------------------------- C17
\* The calls of per-key reducers the last call made, in the order made.
KeyCalls == SelectSeq(calls, LAMBDA c : c.kind = "key")

\* The number of valid keys the loop reaches: all, or up to the first whose
\* reducer returns undefined.
Reached == IF UndefinedAt = {} THEN Len(Final) ELSE FirstUndefined

\* C17: one call of the reducer map's reducer invokes the valid per-key
\* reducers in the order of the keys, each once, each with the value at its
\* key of the state given and the action, and stops after the first that
\* returns undefined.
C17_KeyOrder ==
  CombinatorCalled
    => KeyCalls = [i \in 1..Reached |->
                     Call("key", Final[i].key, NoTag, PreviousAt(i), action)]

\* Of two valid keys the first returned undefined on a defined state: one
\* call was made, for the first key, and the second key was not reached.
C17_Witness ==
  /\ CombinatorCalled /\ OnDefined /\ Len(Final) = 2
  /\ UndefinedAt # {} /\ FirstUndefined = 1
  /\ Len(calls) = 1 /\ calls[1].key = Final[1].key
  /\ error.name = "UndefinedReducerResult"

\* ----------------------------------------------------------------------- C18
\* C18: on a defined state a part action with a registered target makes one
\* call, of the targeted part's reducer with the value at the owner key and
\* the action, and none of the other-reducer or of another part; a non-part
\* action calls no part's reducer: nothing without an other-reducer, the
\* single function once with the state, or per-key reducers only.
C18_RoutingExclusivity ==
  OnDefined
    => /\ (isPartAction(action) /\ Registered)
            => calls = <<Call("part", "", Target.i, Get(Old, Target.o), action)>>
       /\ ~isPartAction(action)
            => /\ \A c \in 1..Len(calls) : calls[c].kind # "part"
               /\ NoOther => calls = <<>>
               /\ OneFunction => calls = <<Call("other", "", NoTag, prev, action)>>
               /\ ReducerMap => \A c \in 1..Len(calls) : calls[c].kind = "key"

\* With two parts and an other-reducer, a part action made exactly one call,
\* for its target, whose owner and name keys differ and hold different values.
C18_Witness ==
  /\ OnDefined /\ isPartAction(action) /\ Registered /\ ~NoOther
  /\ Len(cfg.parts) = 2
  /\ Len(calls) = 1 /\ calls[1].kind = "part" /\ calls[1].tag = action.part
  /\ Target.n # Target.o
  /\ Get(Old, Target.n) # Get(Old, Target.o)
  /\ calls[1].arg = Get(Old, Target.o)

\* ----------------------------------------------------------------------- C19
\* The config of the same parts with an identity function as otherReducer,
\* and what its root reducer returns for the state and action of the last call.
IdentityOther == [type |-> "function", f |-> "identity", entries |-> <<>>]
WithIdentity == [cfg EXCEPT !.otherReducer = IdentityOther]
IdentityResult == reducer(WithIdentity, prev = Undefined, prev, Old, action)

\* C19: a root reducer built with no other-reducer and the one built from
\* the same parts with an identity other-reducer agree on every call, the
\* initializing one included: both fail or neither does, and the states
\* they return are equal.
C19_IdentityOtherEquivalence ==
  (Called /\ NoOther)
    => /\ IdentityResult.thrown <=> error # NoError
       /\ ~IdentityResult.thrown => IdentityResult.content = New

\* ----------------------------------------------------------------------- C20
\* The keys of the state given that the reducer map has no valid entry for.
ExtraKeys == DOMAIN Old \ FinalKeys

\* C20: the object the reducer map's reducer returns on a change has the
\* valid keys as its key set, so the extra keys of the state given are not
\* in it; without a change it returns the state given.  The root reducer
\* keeps the extra keys and their values in both cases.
C20_ExtraKeys ==
  (CombinatorCalled /\ OnDefined /\ ~Combined.thrown)
    => /\ ~Combined.same
            => /\ DOMAIN Combined.content = FinalKeys
               /\ DOMAIN New = DOMAIN Old \cup FinalKeys
       /\ Combined.same => (Combined.content = Old /\ New = Old)
       /\ \A k \in ExtraKeys : k \in DOMAIN New /\ New[k] = Old[k]

\* The state given held a part's key the reducer map has no entry for; the
\* map's result changed and lacks the key, the root state still holds it.
C20_Witness ==
  /\ CombinatorCalled /\ OnDefined /\ ~Combined.thrown /\ ~Combined.same
  /\ \E k \in ExtraKeys :
       /\ k \in {cfg.parts[i].o : i \in 1..Len(cfg.parts)}
       /\ k \notin DOMAIN Combined.content
       /\ k \in DOMAIN New

====
